---- MODULE Spec2Model ----
(***************************************************************************)
(* Model of youtube_dl_gui/utils.py: the TwoWayOrderedDict class and the   *)
(* get_time function.                                                      *)
(*                                                                         *)
(* Python lists are objects on a heap and a dictionary holds a reference   *)
(* to its list (self._items), so that two names for one list are visible   *)
(* in the model.  Every method is an operator on the contents of the list, *)
(* written from its code; every call is an action that applies the         *)
(* operator to the list of the object it is called on.                     *)
(***************************************************************************)
EXTENDS Integers, Sequences, FiniteSets

VARIABLES heap, items_ref, res, pc, last, pre, order, justCleared, seconds, dtime

vars == <<heap, items_ref, res, pc, last, pre, order, justCleared, seconds, dtime>>

(***************************************************************************)
(* Bounds and the values the calls are made with.                          *)
(***************************************************************************)
\* longest sequence of (key, value) pairs handed to the constructor or update
MaxArgs == 2
\* largest number of seconds handed to get_time (more than two days)
MaxSeconds == 180000

None == "None"
RANDOM_OBJECT == "RANDOM_OBJECT"
\* the keys and values the calls are made with (None is an ordinary element)
Elems == {"a", "b", None}
Pairs == Elems \X Elems
\* a keyword binding has a string for its key
KwPairs == (Elems \ {None}) \X Elems

\* the list objects: the list of d, the list of a copy, a list built by keys()/values()
DLIST == 1
CLIST == 2
RLIST == 3

SeqsUpTo(S, n) == UNION {[1..k -> S] : k \in 0..n}
Range(l) == {l[i] : i \in 1..Len(l)}
DistinctKeys(m) == \A i, j \in 1..Len(m) : i # j => m[i][1] # m[j][1]

(***************************************************************************)
(* What a method hands back: the list afterwards, the returned element,    *)
(* the returned pair (popitem), and the exception raised, with its         *)
(* argument.                                                               *)
(***************************************************************************)
Out(l, ret, item, err, errkey) ==
    [list |-> l, ret |-> ret, item |-> item, err |-> err, errkey |-> errkey]
Ok(l, ret) == Out(l, ret, <<>>, "none", None)
KeyError(l, key) == Out(l, None, <<>>, "KeyError", key)

(***************************************************************************)
(* list.remove(x): deletes the first element equal to x.                   *)
(***************************************************************************)
RECURSIVE list_remove(_, _)
list_remove(l, x) ==
    IF l = <<>> THEN <<>>
    ELSE IF Head(l) = x THEN Tail(l)
    ELSE <<Head(l)>> \o list_remove(Tail(l), x)

(***************************************************************************)
(* _find_item: the first pair with key in either position, or KeyError.    *)
(* Modelled as the position of that pair, 0 standing for the KeyError.     *)
(***************************************************************************)
RECURSIVE find_from(_, _, _)
find_from(l, key, i) ==
    IF i > Len(l) THEN 0
    ELSE IF key = l[i][1] \/ key = l[i][2] THEN i
    ELSE find_from(l, key, i + 1)

_find_item(l, key) == find_from(l, key, 1)

(***************************************************************************)
(* _get_value: the other element of the pair.                              *)
(***************************************************************************)
get_value_first_only(key, item) == item[2]

_get_value(key, item) ==
    IF key = item[1] THEN item[2]
    ELSE IF key = item[2] THEN item[1]
    ELSE None

(***************************************************************************)
(* __getitem__                                                             *)
(***************************************************************************)
__getitem__(l, key) ==
    LET i == _find_item(l, key) IN
    IF i = 0 THEN KeyError(l, key)
    ELSE Ok(l, _get_value(key, l[i]))

(***************************************************************************)
(* __setitem__: the while loop over the list, then the append.             *)
(***************************************************************************)
RECURSIVE setitem_loop_key_only(_, _, _, _)
setitem_loop_key_only(l, key, value, index) ==
    IF index > Len(l) THEN l
    ELSE IF key = l[index][1] \/ key = l[index][2]
         THEN setitem_loop_key_only(list_remove(l, l[index]), key, value, index)
         ELSE setitem_loop_key_only(l, key, value, index + 1)

RECURSIVE setitem_loop(_, _, _, _)
setitem_loop(l, key, value, index) ==
    IF index > Len(l) THEN l
    ELSE IF \/ key = l[index][1] \/ key = l[index][2]
            \/ value = l[index][1] \/ value = l[index][2]
         THEN setitem_loop(list_remove(l, l[index]), key, value, index)
         ELSE setitem_loop(l, key, value, index + 1)

setitem_front(l, key, value) ==
    Ok(<<<<key, value>>>> \o setitem_loop(l, key, value, 1), None)

__setitem__(l, key, value) ==
    Ok(Append(setitem_loop(l, key, value, 1), <<key, value>>), None)

(***************************************************************************)
(* __delitem__                                                             *)
(***************************************************************************)
__delitem__(l, key) ==
    LET i == _find_item(l, key) IN
    IF i = 0 THEN KeyError(l, key)
    ELSE Ok(list_remove(l, l[i]), None)

__len__(l) == Len(l)

__contains__(l, item) == _find_item(l, item) # 0

(***************************************************************************)
(* _load_into_dict: every pair of every positional argument, then every    *)
(* keyword binding, through __setitem__.  A positional argument is the     *)
(* sequence of its pairs in the order its iteration gives them.            *)
(***************************************************************************)
RECURSIVE load_pairs(_, _)
load_pairs(l, m) ==
    IF m = <<>> THEN l
    ELSE load_pairs(__setitem__(l, m[1][1], m[1][2]).list, Tail(m))

RECURSIVE load_args(_, _)
load_args(l, args) ==
    IF args = <<>> THEN l
    ELSE load_args(load_pairs(l, Head(args)), Tail(args))

load_into_dict_no_kwargs(l, args, kwargs) == load_args(l, args)

_load_into_dict(l, args, kwargs) == load_pairs(load_args(l, args), kwargs)

\* __init__: a new empty list, then _load_into_dict
__init__(args, kwargs) == _load_into_dict(<<>>, args, kwargs)

(***************************************************************************)
(* items, values, keys.  items returns self._items itself, the other two   *)
(* build a new list.                                                       *)
(***************************************************************************)
items(self_items) == self_items

values(l) == [i \in 1..Len(l) |-> l[i][2]]

keys(l) == [i \in 1..Len(l) |-> l[i][1]]

(***************************************************************************)
(* get, pop, popitem, setdefault, update, copy, clear                      *)
(***************************************************************************)
get_raises(l, key, default) == __getitem__(l, key)

get(l, key, default) ==
    LET r == __getitem__(l, key) IN
    IF r.err = "KeyError" THEN Ok(l, default) ELSE r

pop_keeps_item(l, key, default) ==
    LET i == _find_item(l, key) IN
    IF i = 0
    THEN IF default = RANDOM_OBJECT THEN KeyError(l, key) ELSE Ok(l, default)
    ELSE Ok(l, _get_value(key, l[i]))

pop(l, key, default) ==
    LET i == _find_item(l, key) IN
    IF i = 0
    THEN IF default = RANDOM_OBJECT THEN KeyError(l, key) ELSE Ok(l, default)
    ELSE Ok(list_remove(l, l[i]), _get_value(key, l[i]))

popitem_first(l) ==
    IF Len(l) = 0
    THEN Out(l, None, <<>>, "KeyError", "popitem(): dictionary is empty")
    ELSE Out(Tail(l), None, Head(l), "none", None)

popitem(l) ==
    IF Len(l) = 0
    THEN Out(l, None, <<>>, "KeyError", "popitem(): dictionary is empty")
    ELSE Out(SubSeq(l, 1, Len(l) - 1), None, l[Len(l)], "none", None)

setdefault(l, key, default) ==
    LET r == __getitem__(l, key) IN
    IF r.err = "KeyError" THEN Ok(__setitem__(l, key, default).list, default) ELSE r

update(l, args, kwargs) == Ok(_load_into_dict(l, args, kwargs), None)

\* copy: TwoWayOrderedDict(self._items), a new dictionary with a list of its own
copy_shared(h, self_items) == [ref |-> self_items, list |-> h[self_items]]

copy(h, self_items) == [ref |-> CLIST, list |-> __init__(<<h[self_items]>>, <<>>)]

\* clear: del self._items[:], in place
clear(l) == Ok(<<>>, None)

(***************************************************************************)
(* get_time, on integers: / is the integer division and int() changes      *)
(* nothing.                                                                *)
(***************************************************************************)
get_time_hours_of_total(s) ==
    [days |-> s \div 86400,
     hours |-> s \div 3600,
     minutes |-> ((s % 86400) % 3600) \div 60,
     seconds |-> ((s % 86400) % 3600) % 60]

get_time(s) ==
    [days |-> s \div 86400,
     hours |-> (s % 86400) \div 3600,
     minutes |-> ((s % 86400) % 3600) \div 60,
     seconds |-> ((s % 86400) % 3600) % 60]

(***************************************************************************)
(* The state.                                                              *)
(*   heap        the contents of every list object                         *)
(*   items_ref   self._items of the dictionary d and of its copy c (0: no  *)
(*               copy has been made)                                       *)
(*   res         the list last returned by items(), keys() or values(),    *)
(*               with its contents when it was returned                    *)
(*   pc          "idle", or "returned" right after a call                  *)
(*   last, pre   the call that just returned; the lists and the order      *)
(*               before it                                                 *)
(*   order       the pairs of d from the least to the most recently        *)
(*               inserted, kept from the calls made and not from the list  *)
(*   justCleared the call before the current one was clear()               *)
(*   seconds, dtime   the argument and the result of get_time              *)
(***************************************************************************)
NoCall ==
    [op |-> "none", full |-> FALSE, obj |-> "d", key |-> None, value |-> None, m |-> <<>>,
     kw |-> <<>>, ret |-> None, item |-> <<>>, err |-> "none", errkey |-> None]
NoPre == [self |-> <<>>, other |-> <<>>, order |-> <<>>]
NoRes == [kind |-> "none", ref |-> 0, snap |-> <<>>]
NoTime == [days |-> 0, hours |-> 0, minutes |-> 0, seconds |-> 0]

Other(obj) == IF obj = "d" THEN "c" ELSE "d"
ItemsOf(obj) == heap[items_ref[obj]]

\* the pairs of m, each at its last occurrence only
RECURSIVE LastOccurrences(_)
LastOccurrences(m) ==
    IF m = <<>> THEN <<>>
    ELSE IF Head(m) \in Range(Tail(m)) THEN LastOccurrences(Tail(m))
    ELSE <<Head(m)>> \o LastOccurrences(Tail(m))

\* the pairs a call of op inserts into the list l, in the order it inserts them
Inserted(op, l, key, value, m, kw) ==
    IF op = "setitem" THEN <<<<key, value>>>>
    ELSE IF op = "setdefault" /\ ~(\E i \in 1..Len(l) : l[i][1] = key \/ l[i][2] = key)
         THEN <<<<key, value>>>>
    ELSE IF op = "update" THEN m \o kw
    ELSE <<>>

\* the recency order after a call: what is still present of the old order and
\* was not inserted again, then what the call inserted and is present
Recency(old, ins, now) ==
    LET fresh == LastOccurrences(ins)
        keep(p) == p \in Range(now) /\ p \notin Range(fresh)
        here(p) == p \in Range(now)
    IN SelectSeq(old, keep) \o SelectSeq(fresh, here)

InitCommon ==
    /\ items_ref = [d |-> DLIST, c |-> 0]
    /\ res = NoRes
    /\ pc = "idle"
    /\ last = NoCall
    /\ pre = NoPre
    /\ justCleared = FALSE
    /\ dtime = NoTime

\* d = TwoWayOrderedDict(m, **kw)
Init ==
    /\ InitCommon
    /\ seconds = 0
    /\ \E m \in SeqsUpTo(Pairs, MaxArgs) :
        \E kw \in SeqsUpTo(KwPairs, MaxArgs - Len(m)) :
          /\ DistinctKeys(kw)
          /\ heap = [r \in {DLIST, CLIST, RLIST} |->
                        IF r = DLIST THEN __init__(<<m>>, kw) ELSE <<>>]
          /\ order = Recency(<<>>, m \o kw, __init__(<<m>>, kw))

(***************************************************************************)
(* A call of a method on obj.  full: the call is recorded with its         *)
(* arguments, its result and the list before it; otherwise with its name   *)
(* and its object, and the list of the other dictionary before it.         *)
(***************************************************************************)
Rec(full, op, obj, key, value, m, kw, out) ==
    IF full
    THEN [op |-> op, full |-> TRUE, obj |-> obj, key |-> key, value |-> value, m |-> m, kw |-> kw,
          ret |-> out.ret, item |-> out.item, err |-> out.err, errkey |-> out.errkey]
    ELSE [NoCall EXCEPT !.op = op, !.obj = obj]

Call(obj, full, op, key, value, m, kw, out) ==
    /\ pc = "idle"
    /\ items_ref[obj] # 0
    /\ heap' = [heap EXCEPT ![items_ref[obj]] = out.list]
    /\ pc' = "returned"
    /\ last' = Rec(full, op, obj, key, value, m, kw, out)
    /\ pre' = IF full
              THEN [self |-> ItemsOf(obj), other |-> <<>>, order |-> order]
              ELSE [NoPre EXCEPT
                      !.other = IF items_ref[Other(obj)] # 0 THEN ItemsOf(Other(obj)) ELSE <<>>]
    /\ order' = IF obj = "d"
                THEN Recency(order, Inserted(op, ItemsOf(obj), key, value, m, kw), out.list)
                ELSE order
    /\ UNCHANGED <<items_ref, res, justCleared, seconds, dtime>>

GetItem(obj, full) ==
    \E k \in Elems :
        Call(obj, full, "getitem", k, None, <<>>, <<>>, __getitem__(ItemsOf(obj), k))

SetItem(obj, full) ==
    \E k \in Elems, v \in Elems :
        Call(obj, full, "setitem", k, v, <<>>, <<>>, __setitem__(ItemsOf(obj), k, v))

DelItem(obj, full) ==
    \E k \in Elems :
        Call(obj, full, "delitem", k, None, <<>>, <<>>, __delitem__(ItemsOf(obj), k))

Get(obj, full) ==
    \E k \in Elems, dflt \in Elems :
        Call(obj, full, "get", k, dflt, <<>>, <<>>, get(ItemsOf(obj), k, dflt))

Pop(obj, full) ==
    \E k \in Elems, dflt \in Elems \cup {RANDOM_OBJECT} :
        Call(obj, full, "pop", k, dflt, <<>>, <<>>, pop(ItemsOf(obj), k, dflt))

PopItem(obj, full) ==
    Call(obj, full, "popitem", None, None, <<>>, <<>>, popitem(ItemsOf(obj)))

SetDefault(obj, full) ==
    \E k \in Elems, dflt \in Elems :
        Call(obj, full, "setdefault", k, dflt, <<>>, <<>>, setdefault(ItemsOf(obj), k, dflt))

\* d.update(m, **kw); keyword bindings are made in the calls recorded in full
Update(obj, full) ==
    \E m \in SeqsUpTo(Pairs, MaxArgs) :
      \E kw \in IF full THEN SeqsUpTo(KwPairs, MaxArgs - Len(m)) ELSE {<<>>} :
        /\ DistinctKeys(kw)
        /\ Call(obj, full, "update", None, None, m, kw, update(ItemsOf(obj), <<m>>, kw))

Clear(obj, full) ==
    Call(obj, full, "clear", None, None, <<>>, <<>>, clear(ItemsOf(obj)))

\* c = d.copy()
Copy ==
    /\ pc = "idle"
    /\ LET r == copy(heap, items_ref["d"]) IN
          /\ heap' = [heap EXCEPT ![r.ref] = r.list]
          /\ items_ref' = [items_ref EXCEPT !["c"] = r.ref]
    /\ pc' = "returned"
    /\ last' = [NoCall EXCEPT !.op = "copy"]
    /\ pre' = NoPre
    /\ UNCHANGED <<res, order, justCleared, seconds, dtime>>

\* res = d.items() / d.keys() / d.values(); the list of the result before it is
\* no longer referenced and is dropped
Items ==
    /\ pc = "idle"
    /\ heap' = [heap EXCEPT ![RLIST] = <<>>]
    /\ res' = [kind |-> "items", ref |-> items(items_ref["d"]),
               snap |-> heap[items(items_ref["d"])]]
    /\ pc' = "returned"
    /\ last' = [NoCall EXCEPT !.op = "items"]
    /\ UNCHANGED <<items_ref, pre, order, justCleared, seconds, dtime>>

Keys ==
    /\ pc = "idle"
    /\ heap' = [heap EXCEPT ![RLIST] = keys(ItemsOf("d"))]
    /\ res' = [kind |-> "keys", ref |-> RLIST, snap |-> keys(ItemsOf("d"))]
    /\ pc' = "returned"
    /\ last' = [NoCall EXCEPT !.op = "keys"]
    /\ UNCHANGED <<items_ref, pre, order, justCleared, seconds, dtime>>

Values ==
    /\ pc = "idle"
    /\ heap' = [heap EXCEPT ![RLIST] = values(ItemsOf("d"))]
    /\ res' = [kind |-> "values", ref |-> RLIST, snap |-> values(ItemsOf("d"))]
    /\ pc' = "returned"
    /\ last' = [NoCall EXCEPT !.op = "values"]
    /\ UNCHANGED <<items_ref, pre, order, justCleared, seconds, dtime>>

\* the caller goes on after the call
Return ==
    /\ pc = "returned"
    /\ pc' = "idle"
    /\ last' = NoCall
    /\ pre' = NoPre
    /\ justCleared' = (last.op = "clear" /\ last.obj = "d")
    /\ UNCHANGED <<heap, items_ref, res, order, seconds, dtime>>

GetTime ==
    /\ pc = "idle"
    /\ dtime' = get_time(seconds)
    /\ pc' = "returned"
    /\ UNCHANGED <<heap, items_ref, res, last, pre, order, justCleared, seconds>>

(***************************************************************************)
(* The specifications.                                                     *)
(***************************************************************************)
\* one dictionary, every call recorded in full
Next ==
    \/ GetItem("d", TRUE)
    \/ SetItem("d", TRUE)
    \/ DelItem("d", TRUE)
    \/ Get("d", TRUE)
    \/ Pop("d", TRUE)
    \/ PopItem("d", TRUE)
    \/ SetDefault("d", TRUE)
    \/ Update("d", TRUE)
    \/ Clear("d", TRUE)
    \/ Return

Spec == Init /\ [][Next]_vars

\* the dictionary d and a copy of it, each mutated by every call
NextCopy ==
    \/ Copy
    \/ \E obj \in {"d", "c"} : SetItem(obj, FALSE)
    \/ \E obj \in {"d", "c"} : DelItem(obj, FALSE)
    \/ \E obj \in {"d", "c"} : Pop(obj, FALSE)
    \/ \E obj \in {"d", "c"} : PopItem(obj, FALSE)
    \/ \E obj \in {"d", "c"} : SetDefault(obj, FALSE)
    \/ \E obj \in {"d", "c"} : Update(obj, FALSE)
    \/ \E obj \in {"d", "c"} : Clear(obj, FALSE)
    \/ Return

SpecCopy == Init /\ [][NextCopy]_vars

\* the dictionary d and the list last returned by items(), keys() or values()
NextSnap ==
    \/ Items
    \/ Keys
    \/ Values
    \/ SetItem("d", FALSE)
    \/ DelItem("d", FALSE)
    \/ Pop("d", FALSE)
    \/ PopItem("d", FALSE)
    \/ SetDefault("d", FALSE)
    \/ Update("d", FALSE)
    \/ Clear("d", FALSE)
    \/ Return

SpecSnap == Init /\ [][NextSnap]_vars

\* get_time on every number of seconds up to MaxSeconds
InitTime ==
    /\ InitCommon
    /\ heap = [r \in {DLIST, CLIST, RLIST} |-> <<>>]
    /\ order = <<>>
    /\ seconds \in 0..MaxSeconds

SpecTime == InitTime /\ [][GetTime]_vars

(***************************************************************************)
(* What the claims are stated with.                                        *)
(***************************************************************************)
D == heap[DLIST]
Returned(op) == pc = "returned" /\ last.full /\ last.op = op
Has(l, x) == \E i \in 1..Len(l) : l[i][1] = x \/ l[i][2] = x
Without(l, i) == SubSeq(l, 1, i - 1) \o SubSeq(l, i + 1, Len(l))
Touches(p, a, b) == p[1] = a \/ p[2] = a \/ p[1] = b \/ p[2] = b
OldPartners(l, x) ==
    {l[i][2] : i \in {j \in 1..Len(l) : l[j][1] = x}}
        \cup {l[i][1] : i \in {j \in 1..Len(l) : l[j][2] = x}}
NotFound(l, x) == __getitem__(l, x).err = "KeyError"
Found(l, x, y) == __getitem__(l, x).err = "none" /\ __getitem__(l, x).ret = y
NoSharedElement(l) ==
    \A i, j \in 1..Len(l) :
        i # j => l[i][1] # l[j][1] /\ l[i][1] # l[j][2] /\ l[i][2] # l[j][1] /\ l[i][2] # l[j][2]
Mutations == {"setitem", "delitem", "pop", "popitem", "setdefault", "update", "clear"}

(***************************************************************************)
(* C1: in every state reached from any construction by insert, delete,     *)
(* pop, popitem, setdefault, update, copy and clear, no element is in two  *)
(* different pairs of a dictionary (of d or of its copy).                  *)
(***************************************************************************)
C1_NoElementInTwoPairs ==
    \A obj \in {"d", "c"} : items_ref[obj] # 0 => NoSharedElement(ItemsOf(obj))

C1_Witness ==
    /\ pc = "returned" /\ last.op = "setitem" /\ last.obj = "c"
    /\ Len(ItemsOf("c")) >= 2
    /\ Len(ItemsOf("d")) >= 2
    /\ ItemsOf("c") # ItemsOf("d")

(***************************************************************************)
(* C2: right after insert(a, b) returns, lookup(a) returns b and, for a    *)
(* different from b, lookup(b) returns a, whatever the map held before.    *)
(***************************************************************************)
C2_LookupAfterInsert ==
    Returned("setitem") =>
        /\ Found(D, last.key, last.value)
        /\ last.key # last.value => Found(D, last.value, last.key)

C2_Witness ==
    /\ Returned("setitem")
    /\ last.key # last.value
    /\ Has(pre.self, last.key) /\ Has(pre.self, last.value)
    /\ <<last.key, last.value>> \notin Range(pre.self)
    /\ <<last.value, last.key>> \notin Range(pre.self)

(***************************************************************************)
(* C3: insert(a, b) on the pair sequence S leaves S without every pair     *)
(* that has a or b in either position, the other pairs in their order,     *)
(* then (a, b) as the last pair.  C3_Original adds, as the claim does,     *)
(* that no old partner of a or of b is found by lookup afterwards; the     *)
(* amended C3_InsertEvictsAndAppends says so of the old partners other     *)
(* than a and b themselves.                                                *)
(***************************************************************************)
C3_Sequence ==
    LET keep(p) == ~Touches(p, last.key, last.value)
    IN D = Append(SelectSeq(pre.self, keep), <<last.key, last.value>>)

C3_Original ==
    Returned("setitem") =>
        /\ C3_Sequence
        /\ \A c \in OldPartners(pre.self, last.key) \cup OldPartners(pre.self, last.value) :
              NotFound(D, c)

C3_InsertEvictsAndAppends ==
    Returned("setitem") =>
        /\ C3_Sequence
        /\ \A c \in OldPartners(pre.self, last.key) \cup OldPartners(pre.self, last.value) :
              c \notin {last.key, last.value} => NotFound(D, c)

C3_Witness ==
    /\ Returned("setitem")
    /\ Len(pre.self) = 2
    /\ Len(D) = 2
    /\ D[1] = pre.self[2]
    /\ \E c \in OldPartners(pre.self, last.key) : c \notin {last.key, last.value}

(***************************************************************************)
(* C5: copy() returns a map with the same pairs in the same order, and a   *)
(* later mutation of either of the two leaves the pair sequence of the     *)
(* other unchanged.                                                        *)
(***************************************************************************)
C5_CopyEqualAndIndependent ==
    /\ pc = "returned" /\ last.op = "copy" =>
          items_ref["c"] # 0 /\ ItemsOf("c") = ItemsOf("d")
    /\ pc = "returned" /\ last.op \in Mutations /\ items_ref[Other(last.obj)] # 0 =>
          ItemsOf(Other(last.obj)) = pre.other

C5_Witness ==
    /\ pc = "returned" /\ last.op \in Mutations /\ last.obj = "d"
    /\ items_ref["c"] # 0
    /\ Len(ItemsOf("c")) >= 2
    /\ ItemsOf("c") # ItemsOf("d")

(***************************************************************************)
(* C6: with x in neither position of any pair, lookup(x), delete(x) and    *)
(* pop(x) fail with KeyError for x, get(x, d) and pop(x, d) return d, and  *)
(* the pair sequence is what it was before the call.                       *)
(***************************************************************************)
C6_AbsentKey ==
    pc = "returned" /\ last.full /\ ~Has(pre.self, last.key) =>
        /\ last.op \in {"getitem", "delitem"} \/ (last.op = "pop" /\ last.value = RANDOM_OBJECT) =>
              last.err = "KeyError" /\ last.errkey = last.key /\ D = pre.self
        /\ last.op = "get" \/ (last.op = "pop" /\ last.value # RANDOM_OBJECT) =>
              last.err = "none" /\ last.ret = last.value /\ D = pre.self

C6_Witness ==
    /\ Returned("pop")
    /\ ~Has(pre.self, last.key)
    /\ last.value \in Elems
    /\ Has(pre.self, last.value)
    /\ Len(pre.self) >= 2

(***************************************************************************)
(* C7: popitem on a map with pairs removes and returns the pair inserted   *)
(* most recently among those present and leaves the others and their       *)
(* order; on a map with no pairs, as after clear(), it fails with KeyError *)
(* and the map stays empty.                                                *)
(***************************************************************************)
C7_PopItemNewest ==
    Returned("popitem") =>
        /\ justCleared => pre.self = <<>>
        /\ IF pre.self = <<>>
           THEN last.err = "KeyError" /\ D = <<>>
           ELSE /\ last.err = "none"
                /\ Len(pre.order) > 0
                /\ last.item = pre.order[Len(pre.order)]
                /\ \E i \in 1..Len(pre.self) :
                      pre.self[i] = last.item /\ D = Without(pre.self, i)

C7_Witness ==
    /\ Returned("popitem")
    /\ Len(pre.self) >= 2
    /\ last.err = "none"

C7_WitnessCleared ==
    /\ Returned("popitem")
    /\ justCleared
    /\ last.err = "KeyError"

(***************************************************************************)
(* C8: after update(m), m a mapping with distinct keys, lookup(k) returns  *)
(* m[k] for every key k of m and the pairs of m are the newest pairs of    *)
(* items().  C8_Original is the claim; the amended C8_UpdateDisjoint is    *)
(* the claim for the mappings in which no element is in two entries.       *)
(***************************************************************************)
UpdMapping == last.m \o last.kw
IsMapping == (last.m = <<>> \/ last.kw = <<>>) /\ DistinctKeys(UpdMapping)
UpdOverwrites ==
    LET m == UpdMapping IN
    /\ \A i \in 1..Len(m) : Found(D, m[i][1], m[i][2])
    /\ Len(D) >= Len(m)
    /\ SubSeq(D, Len(D) - Len(m) + 1, Len(D)) = m

C8_Original == Returned("update") /\ IsMapping => UpdOverwrites

C8_UpdateDisjoint ==
    Returned("update") /\ IsMapping /\ NoSharedElement(UpdMapping) => UpdOverwrites

C8_Witness ==
    /\ Returned("update")
    /\ IsMapping /\ NoSharedElement(UpdMapping)
    /\ Len(UpdMapping) = 2
    /\ last.kw # <<>>
    /\ \E i \in 1..Len(UpdMapping) :
          /\ Has(pre.self, UpdMapping[i][1])
          /\ ~Found(pre.self, UpdMapping[i][1], UpdMapping[i][2])

(***************************************************************************)
(* C9: delete(x) or pop(x), x either element of the pair (a, b) of the     *)
(* map, removes that one pair (pop returning the other element): a and b   *)
(* are no longer contained, the length is one less, and the other pairs    *)
(* are unchanged and in the same order.                                    *)
(***************************************************************************)
C9_RemoveByEitherElement ==
    pc = "returned" /\ last.full /\ last.op \in {"delitem", "pop"} /\ Has(pre.self, last.key) =>
        \E i \in 1..Len(pre.self) :
            LET p == pre.self[i] IN
            /\ last.key = p[1] \/ last.key = p[2]
            /\ last.err = "none"
            /\ D = Without(pre.self, i)
            /\ ~__contains__(D, p[1]) /\ ~__contains__(D, p[2])
            /\ __len__(D) = __len__(pre.self) - 1
            /\ last.op = "pop" => last.ret = IF last.key = p[1] THEN p[2] ELSE p[1]

C9_Witness ==
    /\ Returned("pop")
    /\ Len(pre.self) = 2
    /\ pre.self[1][1] # last.key /\ pre.self[1][2] = last.key
    /\ D = <<pre.self[2]>>
    /\ last.ret = pre.self[1][1]

(***************************************************************************)
(* C4: the results of items(), keys() and values() are the pair list, the  *)
(* first elements and the second elements at the call, and a result        *)
(* already returned is not changed by a later call on the map.             *)
(***************************************************************************)
C4_Snapshots ==
    /\ pc = "returned" /\ last.op = "items" => heap[res.ref] = D
    /\ pc = "returned" /\ last.op = "keys" => heap[res.ref] = [i \in 1..Len(D) |-> D[i][1]]
    /\ pc = "returned" /\ last.op = "values" => heap[res.ref] = [i \in 1..Len(D) |-> D[i][2]]
    /\ res.kind # "none" => heap[res.ref] = res.snap

\* the same of keys() and values() alone
C4_KeysValuesSnapshots ==
    res.kind \in {"keys", "values"} => heap[res.ref] = res.snap

(***************************************************************************)
(* C10: for every s >= 0, get_time(s) gives days, hours, minutes and       *)
(* seconds that are >= 0, with hours < 24, minutes < 60, seconds < 60 and  *)
(* days*86400 + hours*3600 + minutes*60 + seconds = s.                     *)
(***************************************************************************)
C10_GetTime ==
    pc = "returned" =>
        /\ dtime.days >= 0 /\ dtime.hours >= 0 /\ dtime.minutes >= 0 /\ dtime.seconds >= 0
        /\ dtime.hours < 24 /\ dtime.minutes < 60 /\ dtime.seconds < 60
        /\ dtime.days * 86400 + dtime.hours * 3600 + dtime.minutes * 60 + dtime.seconds = seconds

C10_Witness ==
    /\ pc = "returned"
    /\ dtime.days = 2 /\ dtime.hours = 1 /\ dtime.minutes = 59 /\ dtime.seconds = 59

\* the recency order kept from the calls is the order of the list
OrderIsListOrder == order = D

====
